---- MODULE Spec2Model ----
(***************************************************************************)
(* Model of AdvisoorInfoBot.py: the /search command handler                *)
(* (send_token_info), the provider fetches (fetch_token_metadata,          *)
(* fetch_top_holders) and the report composition (create_message).         *)
(*                                                                         *)
(* One behaviour is one invocation of the handler.  The pc variable is the *)
(* handler's position; an uncaught Python exception moves it to "raised",  *)
(* where the handler has ended without sending a reply.                    *)
(*                                                                         *)
(* Numbers: Python floats are modelled as exact rationals [num, den] with  *)
(* den > 0.  A formatted number is [fmt, num, den]: "{:.2f}%" of 11.111 is *)
(* [fmt |-> ".2f%", num |-> 1111, den |-> 100].                            *)
(***************************************************************************)
EXTENDS Integers, Sequences, FiniteSets

\* ------------------------------------------------------------- bounds
MaxArgs == 2        \* words after /search
MaxMarkets == 2     \* entries of the market response's 'markets' list
MaxDecimals == 1    \* largest 'decimals' of the meta response
MaxHolders == 6     \* entries of the holders response's 'data' list

\* ------------------------------------------------------------- constants
HTTP_OK == 200
Top5 == 5
Top10 == 10

\* ------------------------------------------------------------- values
\* Python None / an absent JSON key, for numeric and string fields.
NoneNum == [has |-> FALSE, v |-> 0]
Some(n) == [has |-> TRUE, v |-> n]
NoneStr == "<None>"

Truthy(s) == s # NoneStr /\ s # ""

RECURSIVE Pow10(_)
Pow10(n) == IF n = 0 THEN 1 ELSE 10 * Pow10(n - 1)

\* Exact rationals standing for Python floats and ints.
Rat(n, d) == IF d < 0 THEN [num |-> -n, den |-> -d] ELSE [num |-> n, den |-> d]
IntRat(n) == [num |-> n, den |-> 1]
RatMul(a, b) == Rat(a.num * b.num, a.den * b.den)
RatSub(a, b) == Rat(a.num * b.den - b.num * a.den, a.den * b.den)
RatIsZero(a) == a.num = 0
\* a / b for b # 0 (the caller raises ZeroDivisionError before calling it
\* with b = 0).
RatDiv(a, b) == Rat(a.num * b.den, a.den * b.num)

\* Nearest integer to n / d (d > 0), ties to even: the rounding of
\* str.format's fixed-point conversions.
RoundHalfEven(n, d) ==
    LET q == n \div d
        r == n % d
    IN  IF 2 * r < d THEN q
        ELSE IF 2 * r > d THEN q + 1
        ELSE IF q % 2 = 0 THEN q ELSE q + 1

\* "{:.2f}<suffix>".format(x)
Format2f(x, suffix) ==
    [fmt |-> ".2f" \o suffix, num |-> RoundHalfEven(100 * x.num, x.den), den |-> 100]
\* "${:,.0f}".format(x)
FormatUsd0(x) == [fmt |-> "$,.0f", num |-> RoundHalfEven(x.num, x.den), den |-> 1]
\* "{:,.0f}".format(x)
Format0(x) == [fmt |-> ",.0f", num |-> RoundHalfEven(x.num, x.den), den |-> 1]
\* The literal 'N/A'.
NA == [fmt |-> "N/A", num |-> 0, den |-> 1]
\* f"${price_usdt}": the value's own str(), or N/A.
FormatPrice(price_usdt) ==
    IF price_usdt.has THEN [fmt |-> "$str", num |-> price_usdt.v.num, den |-> price_usdt.v.den]
    ELSE [fmt |-> "$N/A", num |-> 0, den |-> 1]

\* None for a float-valued field.
NoneRat == [has |-> FALSE, v |-> IntRat(0)]

\* ------------------------------------------------------------- inputs
\* What /search can be called with.
\* No word, or the token address followed by up to MaxArgs - 1 more words.
ArgLists ==
    {<<>>} \cup
    { <<"TOKEN_A">> \o [i \in 1..n |-> "TOKEN_B"] : n \in 0..(MaxArgs - 1) }

\* Outcome of one session.get(): not issued, no response before the
\* session's timeout (asyncio.TimeoutError out of session.get), or a
\* response with a status code.
TimedOut == [sent |-> TRUE, timedOut |-> TRUE, code |-> 0]
Responded(code) == [sent |-> TRUE, timedOut |-> FALSE, code |-> code]
StatusCodes == {HTTP_OK, 500}
Outcomes == {TimedOut} \cup {Responded(c) : c \in StatusCodes}
Is200(o) == o.sent /\ ~o.timedOut /\ o.code = HTTP_OK
\* The status variable keeps, for each request of the query, its outcome and
\* whether a 200 response's body held the data the caller looks for.
NotSent == [sent |-> FALSE, timedOut |-> FALSE, code |-> 0, hasData |-> FALSE]
Observed(o, hasData) ==
    [sent |-> o.sent, timedOut |-> o.timedOut, code |-> o.code,
     hasData |-> Is200(o) /\ hasData]

\* Bodies of the market response: 'markets' absent, empty or a list of
\* entries with 'volume24h' and 'liquidity' (each possibly null), and
\* 'priceChange24h'.
MarketEntries ==
    { [volume24h |-> Some(500), liquidity |-> Some(200)],
      [volume24h |-> NoneNum, liquidity |-> Some(50)] }
MarketLists == UNION {[1..n -> MarketEntries] : n \in 0..MaxMarkets}
PriceChanges == {NoneRat, Some(Rat(1, 10)), Some(IntRat(1))}
MarketBodies ==
    [hasMarkets : {TRUE}, markets : MarketLists, priceChange24h : PriceChanges]
      \cup [hasMarkets : {FALSE}, markets : {<<>>}, priceChange24h : {NoneRat}]

\* Bodies of the meta response.
LinkValues == {NoneStr, "x"}
Prices == {NoneRat, Some(IntRat(0)), Some(IntRat(1))}
Supplies == {NoneNum, Some(0), Some(100)}
DecimalsChoices == {NoneNum} \cup {Some(d) : d \in 0..MaxDecimals}
MetaBodies ==
    [decimals : DecimalsChoices, supply : Supplies, price : Prices,
     symbol : {"TKN"}, name : {"Token"},
     tokenAuthority : {NoneStr, "authority"},
     website : LinkValues \cup {""}, twitter : LinkValues, tag : LinkValues,
     coingeckoId : LinkValues]

\* Bodies of the holders response: 'data' absent or a list of holders with
\* an address and a raw amount.
HolderAddresses == <<"A", "B", "C", "D", "E", "F", "G", "H", "I", "J", "K", "L">>
ExampleHolders ==
    << [address |-> "A", amount |-> 50], [address |-> "B", amount |-> 30],
       [address |-> "C", amount |-> 20] >>
HolderLists ==
    {ExampleHolders} \cup
    { [i \in 1..n |-> [address |-> HolderAddresses[i], amount |-> 100 \div i]] :
        n \in {0, 1, MaxHolders} }
HolderBodies ==
    [hasData : {TRUE}, data : HolderLists] \cup [hasData : {FALSE}, data : {<<>>}]

RECURSIVE SumSeq(_)
SumSeq(s) == IF s = <<>> THEN 0 ELSE Head(s) + SumSeq(Tail(s))

\* s[:n]
Slice(s, n) == SubSeq(s, 1, IF Len(s) < n THEN Len(s) ELSE n)

\* A line of message_lines: its text's label, the formatted values it
\* interpolates and the <a href> links it holds.  A link is the URL template
\* and the string that safely_quote() encodes into it.
Line(label, vals, links) == [label |-> label, vals |-> vals, links |-> links]
Link(template, quoted) == [template |-> template, quoted |-> quoted]
\* ------------------------------------------------------------- fetch_token_metadata
\* The value create_message tests with "not token_metadata".
NoMetadata ==
    [isNone |-> TRUE, token_symbol |-> "", token_name |-> "", decimals |-> 0,
     price_usdt |-> NoneRat, volume_usdt |-> 0, total_liquidity |-> 0,
     price_change_24h |-> NoneRat, total_supply |-> IntRat(0),
     token_authority |-> NoneStr, website |-> NoneStr, twitter |-> NoneStr,
     tag |-> NoneStr, coingeckoId |-> NoneStr]

\* total_supply_raw / (10 ** decimals) if decimals else total_supply_raw
TotalSupply(total_supply_raw, decimals) ==
    IF decimals # 0 THEN Rat(total_supply_raw, Pow10(decimals)) ELSE IntRat(total_supply_raw)

\* sum(m.get(key, 0) for m in markets if m.get(key) is not None)
SumPresent(markets, key) ==
    SumSeq([i \in 1..Len(markets) |-> IF markets[i][key].has THEN markets[i][key].v ELSE 0])

\* dict.get(key, default) for a string field
GetStr(value, default) == IF value = NoneStr THEN default ELSE value
GetNum(value, default) == IF value.has THEN value.v ELSE default

\* The result dict built from the two JSON bodies.
BuildResult(market_data, meta_data) ==
    LET decimals == GetNum(meta_data.decimals, 0)
        total_supply_raw == GetNum(meta_data.supply, 0)
    IN  [isNone |-> FALSE,
         token_symbol |-> GetStr(meta_data.symbol, "Unknown"),
         token_name |-> GetStr(meta_data.name, "Unknown"),
         decimals |-> decimals,
         price_usdt |-> meta_data.price,
         volume_usdt |-> SumPresent(market_data.markets, "volume24h"),
         total_liquidity |-> SumPresent(market_data.markets, "liquidity"),
         price_change_24h |-> market_data.priceChange24h,
         total_supply |-> TotalSupply(total_supply_raw, decimals),
         token_authority |-> meta_data.tokenAuthority,
         website |-> meta_data.website,
         twitter |-> meta_data.twitter,
         tag |-> meta_data.tag,
         coingeckoId |-> meta_data.coingeckoId]

\* if market_response.status == 200 and meta_response.status == 200
BothOk(market_response, meta_response) == Is200(market_response) /\ Is200(meta_response)

\* 'markets' in market_data and market_data['markets']
HasMarkets(market_data) == market_data.hasMarkets /\ market_data.markets # <<>>

\* What fetch_token_metadata returns once both responses have arrived.
TokenMetadataOf(market_response, meta_response, market_data, meta_data) ==
    IF BothOk(market_response, meta_response) /\ HasMarkets(market_data)
    THEN BuildResult(market_data, meta_data)
    ELSE NoMetadata

\* ------------------------------------------------------------- fetch_top_holders
TopHoldersOf(response, data) ==
    IF Is200(response) /\ data.hasData THEN data.data ELSE <<>>

\* ------------------------------------------------------------- create_message
\* if price_usdt != 'N/A' and token_metadata.get('price_change_24h') is not None
PriceChangeKnown(md) == md.price_usdt.has /\ md.price_change_24h.has

\* price_usdt - price_change_24h, the divisor of the price-change ratio
PriorPrice(md) == RatSub(md.price_usdt.v, md.price_change_24h.v)

\* The division on the price-change line raises ZeroDivisionError.
PriceChangeRaises(md) == PriceChangeKnown(md) /\ RatIsZero(PriorPrice(md))

\* price_change_24h_str, when the division does not raise
PriceChangeStr(md) ==
    IF PriceChangeKnown(md)
    THEN Format2f(RatMul(RatDiv(md.price_change_24h.v, PriorPrice(md)), IntRat(100)), "%")
    ELSE NA

\* market_cap = total_supply * price_usdt if price_usdt != 'N/A' else 0
MarketCap(total_supply, price) ==
    IF price.has THEN RatMul(total_supply, price.v) ELSE IntRat(0)

\* (market_cap or 1)
OrOne(cap) == IF RatIsZero(cap) THEN IntRat(1) ELSE cap

\* Variant: the volume ratio scaled by 100 like the liquidity ratio.
VolumeMarketCapRatio_AsPercent(total_volume, cap) ==
    RatMul(RatDiv(IntRat(total_volume), IF RatIsZero(cap) THEN IntRat(1) ELSE cap), IntRat(100))

\* total_volume / (market_cap or 1)
VolumeMarketCapRatio(total_volume, cap) == RatDiv(IntRat(total_volume), OrOne(cap))

\* dex_liquidity / (market_cap or 1)
DexLiquidityMarketCapRatio(dex_liquidity, cap) == RatDiv(IntRat(dex_liquidity), OrOne(cap))

\* The header and the Token Overview section.
OverviewLines(md, price, cap) ==
    << Line("Advisoor Token Info Bot", <<>>, <<>>),
       Line("Token Name: " \o md.token_name, <<>>, <<>>),
       Line("<b>Token Overview</b>", <<>>, <<>>),
       Line("Symbol: " \o md.token_symbol, <<>>, <<>>),
       Line("Price", <<FormatPrice(price)>>, <<>>),
       Line("Market Cap", <<FormatUsd0(cap)>>, <<>>),
       Line("Total Supply", <<Format0(md.total_supply)>>, <<>>),
       Line("Token Authority: " \o (IF md.token_authority = NoneStr THEN "green" ELSE "red"),
            <<>>, <<>>) >>

\* holder['amount'] / total_supply * 100, for total_supply # 0
Percentage(amount, total_supply) ==
    RatMul(RatDiv(IntRat(amount), total_supply), IntRat(100))

Amounts(holders) == [i \in 1..Len(holders) |-> holders[i].amount]

\* The Holder Distribution section, for total_supply # 0.
HolderLines(holders, total_supply) ==
    << Line("<b>Holder Distribution</b>", <<>>, <<>>),
       Line("Top10 Distro",
            [i \in 1..Len(holders) |-> Format2f(Percentage(holders[i].amount, total_supply), "%")],
            [i \in 1..Len(holders) |-> Link("https://solscan.io/token/", holders[i].address)]),
       Line("Sum Top 5 | Sum Top 10",
            << Format2f(Percentage(SumSeq(Amounts(Slice(holders, Top5))), total_supply), "%"),
               Format2f(Percentage(SumSeq(Amounts(Slice(holders, Top10))), total_supply), "%") >>,
            <<>>) >>

\* if top_holders:
ShowHolders(holders) == holders # <<>>

\* Variant: the link line guarded by "is not None" instead of truthiness.
OptionalLink_NotNone(value, label, template) ==
    IF value # NoneStr THEN <<Line(label, <<>>, <<Link(template, value)>>)>> ELSE <<>>

\* One optional Key Links line: present when the field is truthy.
OptionalLink(value, label, template) ==
    IF Truthy(value) THEN <<Line(label, <<>>, <<Link(template, value)>>)>> ELSE <<>>

\* The Liquidity, Market Activity and Key Links sections.
TailLines(md, addr, change_str, vol_ratio, liq_ratio) ==
    << Line("<b>Liquidity</b>", <<>>, <<>>),
       Line("DEX Liquidity", <<FormatUsd0(IntRat(md.total_liquidity))>>, <<>>),
       Line("DEX Liquidity / Market Cap",
            <<Format2f(RatMul(liq_ratio, IntRat(100)), "%")>>, <<>>),
       Line("<b>Market Activity</b>", <<>>, <<>>),
       Line("Price Change (24h)", <<change_str>>, <<>>),
       Line("Total Volume (24h)", <<FormatUsd0(IntRat(md.volume_usdt))>>, <<>>),
       Line("Volume / Market Cap", <<Format2f(vol_ratio, "x")>>, <<>>),
       Line("<b>Key Links</b>", <<>>, <<>>),
       Line("Contract Address", <<>>, <<Link("https://solscan.io/token/", addr)>>) >>
    \o OptionalLink(md.coingeckoId, "CoinGecko", "https://www.coingecko.com/en/coins/")
    \o OptionalLink(md.tag, "Tag", "https://solscan.io/account/")
    \o OptionalLink(md.twitter, "Twitter", "https://twitter.com/")
    \o OptionalLink(md.website, "Website", "")
    \o << Line("RugCheck", <<>>, <<Link("https://rugcheck.xyz/tokens/", addr)>>),
          Line("BirdEye", <<>>, <<Link("https://birdeye.so/token/", addr)>>) >>

\* The no-data notice with its link.
NotFoundLine(addr) ==
    Line("No data available for the provided token address", <<>>,
         <<Link("https://solscan.io/token/", addr)>>)
\* The expressions of the source that can raise.
GetMarket == "session.get(market_url)"
GetMeta == "session.get(meta_url)"
GetHolders == "session.get(url)"
PriceChangeDivision == "price_change_24h / (price_usdt - price_change_24h)"
HolderDivision == "holder['amount'] / total_supply"

\* ------------------------------------------------------------- state
VARIABLES
    args,                \* context.args
    pc,                  \* position of the handler
    token_address,       \* args[0]
    status,              \* outcome of each session.get of this query
    token_metadata,      \* result of fetch_token_metadata
    top_holders,         \* result of fetch_top_holders
    price_change_24h_str,
    market_cap,
    volume_market_cap_ratio,
    dex_liquidity_market_cap_ratio,
    message_lines,
    raisedAt,            \* the expression whose exception ended the handler
    replies              \* what update.message.reply_text was called with

vars ==
    << args, pc, token_address, status, token_metadata, top_holders,
       price_change_24h_str, market_cap, volume_market_cap_ratio,
       dex_liquidity_market_cap_ratio, message_lines, raisedAt, replies >>

locals ==
    << price_change_24h_str, market_cap, volume_market_cap_ratio,
       dex_liquidity_market_cap_ratio >>

Init ==
    /\ args \in ArgLists
    /\ pc = "send_token_info"
    /\ token_address = ""
    /\ status = [market |-> NotSent, meta |-> NotSent, holders |-> NotSent]
    /\ token_metadata = NoMetadata
    /\ top_holders = <<>>
    /\ price_change_24h_str = NA
    /\ market_cap = IntRat(0)
    /\ volume_market_cap_ratio = IntRat(0)
    /\ dex_liquidity_market_cap_ratio = IntRat(0)
    /\ message_lines = <<>>
    /\ raisedAt = ""
    /\ replies = <<>>

UsageText == <<Line("Please provide a token address.", <<>>, <<>>)>>
ReplyButtons == <<"Photon", "Pepeboost">>

\* send_token_info with no argument: the usage reply.
SendUsage ==
    /\ pc = "send_token_info"
    /\ Len(args) = 0
    /\ replies' = Append(replies, [text |-> UsageText, buttons |-> <<>>])
    /\ pc' = "done"
    /\ UNCHANGED << args, token_address, status, token_metadata, top_holders,
                    locals, message_lines, raisedAt >>

\* send_token_info with arguments: the query on args[0] starts.
StartQuery ==
    /\ pc = "send_token_info"
    /\ Len(args) # 0
    /\ token_address' = args[1]
    /\ message_lines' = <<Line("", <<>>, <<>>)>>
    /\ pc' = "fetch_token_metadata"
    /\ UNCHANGED << args, status, token_metadata, top_holders, locals, raisedAt, replies >>

\* fetch_token_metadata: the market request, then the meta request, then
\* the result.  A request that gets no response raises out of session.get.
FetchTokenMetadata ==
    /\ pc = "fetch_token_metadata"
    /\ \E market_response \in Outcomes, meta_response \in Outcomes,
          market_data \in MarketBodies, meta_data \in MetaBodies :
          IF market_response.timedOut
          THEN /\ status' = [status EXCEPT !.market = Observed(market_response, FALSE)]
               /\ raisedAt' = GetMarket
               /\ pc' = "raised"
               /\ UNCHANGED token_metadata
          ELSE IF meta_response.timedOut
          THEN /\ status' =
                      [status EXCEPT !.market = Observed(market_response, HasMarkets(market_data)),
                                     !.meta = Observed(meta_response, FALSE)]
               /\ raisedAt' = GetMeta
               /\ pc' = "raised"
               /\ UNCHANGED token_metadata
          ELSE /\ status' =
                      [status EXCEPT !.market = Observed(market_response, HasMarkets(market_data)),
                                     !.meta = Observed(meta_response, TRUE)]
               /\ token_metadata' =
                      TokenMetadataOf(market_response, meta_response, market_data, meta_data)
               /\ pc' = "create_message"
               /\ UNCHANGED raisedAt
    /\ UNCHANGED << args, token_address, top_holders, locals, message_lines, replies >>

\* create_message, "if not token_metadata": the no-data notice, returned.
ComposeNotFound ==
    /\ pc = "create_message"
    /\ token_metadata.isNone
    /\ message_lines' = Append(message_lines, NotFoundLine(token_address))
    /\ pc' = "returned"
    /\ UNCHANGED << args, token_address, status, token_metadata, top_holders,
                    locals, raisedAt, replies >>

\* create_message, else branch up to price_change_24h_str.
ComputePriceChange ==
    /\ pc = "create_message"
    /\ ~token_metadata.isNone
    /\ IF PriceChangeRaises(token_metadata)
       THEN /\ raisedAt' = PriceChangeDivision
            /\ pc' = "raised"
            /\ UNCHANGED price_change_24h_str
       ELSE /\ price_change_24h_str' = PriceChangeStr(token_metadata)
            /\ pc' = "market_cap"
            /\ UNCHANGED raisedAt
    /\ UNCHANGED << args, token_address, status, token_metadata, top_holders,
                    market_cap, volume_market_cap_ratio,
                    dex_liquidity_market_cap_ratio, message_lines, replies >>

\* create_message: market cap, the two market-cap ratios, the header and
\* the Token Overview section.
ComputeMarketCap ==
    /\ pc = "market_cap"
    /\ LET cap == MarketCap(token_metadata.total_supply, token_metadata.price_usdt)
       IN  /\ market_cap' = cap
           /\ volume_market_cap_ratio' =
                  VolumeMarketCapRatio(token_metadata.volume_usdt, cap)
           /\ dex_liquidity_market_cap_ratio' =
                  DexLiquidityMarketCapRatio(token_metadata.total_liquidity, cap)
           /\ message_lines' =
                  message_lines \o OverviewLines(token_metadata, token_metadata.price_usdt, cap)
    /\ pc' = "fetch_top_holders"
    /\ UNCHANGED << args, token_address, status, token_metadata, top_holders,
                    price_change_24h_str, raisedAt, replies >>

\* fetch_top_holders
FetchTopHolders ==
    /\ pc = "fetch_top_holders"
    /\ \E response \in Outcomes, data \in HolderBodies :
          /\ status' = [status EXCEPT !.holders = Observed(response, data.hasData)]
          /\ IF response.timedOut
             THEN /\ raisedAt' = GetHolders
                  /\ pc' = "raised"
                  /\ UNCHANGED top_holders
             ELSE /\ top_holders' = TopHoldersOf(response, data)
                  /\ pc' = "holder_distribution"
                  /\ UNCHANGED raisedAt
    /\ UNCHANGED << args, token_address, token_metadata, locals, message_lines, replies >>

\* create_message from "if top_holders:" to "return message_text".
ComposeRest ==
    /\ pc = "holder_distribution"
    /\ IF ShowHolders(top_holders) /\ RatIsZero(token_metadata.total_supply)
       THEN /\ raisedAt' = HolderDivision
            /\ pc' = "raised"
            /\ UNCHANGED message_lines
       ELSE /\ message_lines' =
                   message_lines
                   \o (IF ShowHolders(top_holders)
                       THEN HolderLines(top_holders, token_metadata.total_supply)
                       ELSE <<>>)
                   \o TailLines(token_metadata, token_address, price_change_24h_str,
                                volume_market_cap_ratio, dex_liquidity_market_cap_ratio)
            /\ pc' = "returned"
            /\ UNCHANGED raisedAt
    /\ UNCHANGED << args, token_address, status, token_metadata, top_holders,
                    locals, replies >>

\* send_token_info: the reply with the report.
SendReply ==
    /\ pc = "returned"
    /\ replies' = Append(replies, [text |-> message_lines, buttons |-> ReplyButtons])
    /\ pc' = "done"
    /\ UNCHANGED << args, token_address, status, token_metadata, top_holders,
                    locals, message_lines, raisedAt >>

Next ==
    \/ SendUsage
    \/ StartQuery
    \/ FetchTokenMetadata
    \/ ComposeNotFound
    \/ ComputePriceChange
    \/ ComputeMarketCap
    \/ FetchTopHolders
    \/ ComposeRest
    \/ SendReply

Spec == Init /\ [][Next]_vars
\* ------------------------------------------------------------- properties
Requests == {"market", "meta", "holders"}
\* create_message has returned its report.
Returned == pc = "returned" \/ (pc = "done" /\ Len(args) # 0)
Found == ~token_metadata.isNone
\* The requests that got a non-200 response.
Failed == {r \in Requests : status[r].sent /\ ~status[r].timedOut /\ ~Is200(status[r])}
NoTimeout == \A r \in Requests : ~status[r].timedOut

HasLabel(lines, label) == \E i \in 1..Len(lines) : lines[i].label = label
LineOf(lines, label) == lines[CHOOSE i \in 1..Len(lines) : lines[i].label = label]
LinkCount(lines) == SumSeq([i \in 1..Len(lines) |-> Len(lines[i].links)])

\* The section headers and link lines of a report, in order.
StructuralLabels ==
    { "<b>Token Overview</b>", "<b>Holder Distribution</b>", "<b>Liquidity</b>",
      "<b>Market Activity</b>", "<b>Key Links</b>", "Contract Address", "CoinGecko",
      "Tag", "Twitter", "Website", "RugCheck", "BirdEye",
      "No data available for the provided token address" }
IsStructural(line) == line.label \in StructuralLabels
Structure(lines) ==
    LET kept == SelectSeq(lines, IsStructural)
    IN  [i \in 1..Len(kept) |-> kept[i].label]

IsNotFoundReport(lines) ==
    /\ Structure(lines) = <<"No data available for the provided token address">>
    /\ LinkCount(lines) = 1
    /\ LineOf(lines, "No data available for the provided token address").links
         = <<Link("https://solscan.io/token/", token_address)>>
IsFoundReport(lines) == HasLabel(lines, "<b>Token Overview</b>")

\* C1: for a query with one identifier and any combination of response
\* statuses and bodies, create_message raises nothing and returns a report;
\* a non-200 response gives no metadata (None) or no holders ([]), and with no
\* metadata the report is the NotFound variant.
C1_NeverRaisesOnAnyStatus ==
    (Len(args) = 1 /\ NoTimeout) =>
        /\ pc # "raised"
        /\ (pc \notin {"send_token_info", "fetch_token_metadata"}
              /\ (~Is200(status.market) \/ ~Is200(status.meta))) => token_metadata.isNone
        /\ (status.holders.sent /\ ~Is200(status.holders)) => top_holders = <<>>
        /\ (Returned /\ token_metadata.isNone) => IsNotFoundReport(message_lines)

\* C2: when exactly one request of the query gets a non-200 response and the
\* other responses hold data, the returned report is the Found variant, not
\* the NotFound one.
C2_SingleFailureDegrades ==
    (/\ Returned
     /\ Cardinality(Failed) = 1
     /\ \A r \in Requests \ Failed : status[r].sent => status[r].hasData)
        => IsFoundReport(message_lines)

\* The price-change percentage the specification prescribes: unknown when
\* the price or the change is unknown or the prior price is 0, otherwise
\* change / (price - change) * 100.
SpecPriceChange(md) ==
    IF ~md.price_usdt.has \/ ~md.price_change_24h.has THEN NA
    ELSE IF RatIsZero(RatSub(md.price_usdt.v, md.price_change_24h.v)) THEN NA
    ELSE Format2f(RatMul(RatDiv(md.price_change_24h.v,
                                RatSub(md.price_usdt.v, md.price_change_24h.v)),
                         IntRat(100)), "%")

\* C3: the price-change computation never raises; with a prior price of 0 or
\* an unknown price or change the result is N/A and the report is still
\* composed, otherwise it is change / (price - change) * 100.
C3_PriceChangeNeverRaises ==
    /\ raisedAt # PriceChangeDivision
    /\ (Found /\ pc \in {"market_cap", "fetch_top_holders", "holder_distribution",
                         "returned", "done"})
          => price_change_24h_str = SpecPriceChange(token_metadata)

\* C4: with a non-empty top-holders list and a total supply of zero, the
\* holder percentages and the top-5 and top-10 sums are unknown and the
\* report is composed without raising.
C4_ZeroSupplyConcentrationUnknown ==
    (Found /\ top_holders # <<>> /\ RatIsZero(token_metadata.total_supply)) =>
        /\ raisedAt # HolderDivision
        /\ Returned =>
              /\ \A i \in 1..Len(top_holders) :
                    LineOf(message_lines, "Top10 Distro").vals[i] = NA
              /\ LineOf(message_lines, "Sum Top 5 | Sum Top 10").vals = <<NA, NA>>

\* C5: a call whose identifier count is not exactly one issues no provider
\* request and is answered with the usage error.
C5_RejectsAllButOneIdentifier ==
    Len(args) # 1 =>
        /\ \A r \in Requests : ~status[r].sent
        /\ pc \in {"send_token_info", "done"}
        /\ pc = "done" => replies = <<[text |-> UsageText, buttons |-> <<>>]>>

\* C6: a fetch that gets no response before its timeout is turned into no
\* data and is not raised to the caller, so a handler that has ended after a
\* timeout has sent exactly one reply.
C6_TimeoutStillReplies ==
    (\E r \in Requests : status[r].timedOut) =>
        /\ raisedAt \notin {GetMarket, GetMeta, GetHolders}
        /\ pc \in {"done", "raised"} => Len(replies) = 1

\* The holder share the specification prescribes: the raw amount scaled by
\* 10^decimals, over the human-unit total supply, as a percentage.
SpecShare(amount, md) ==
    Format2f(RatMul(RatDiv(Rat(amount, Pow10(md.decimals)), md.total_supply), IntRat(100)), "%")

\* C7: every rendered holder share is (amount_raw / 10^decimals) /
\* total_supply * 100, and the top-5 sum is the same over the first five
\* holders' amounts.
C7_HolderShareScaledByDecimals ==
    (Returned /\ Found /\ top_holders # <<>>) =>
        /\ \A i \in 1..Len(top_holders) :
              LineOf(message_lines, "Top10 Distro").vals[i]
                = SpecShare(top_holders[i].amount, token_metadata)
        /\ LineOf(message_lines, "Sum Top 5 | Sum Top 10").vals[1]
             = SpecShare(SumSeq(Amounts(Slice(top_holders, 5))), token_metadata)

\* The structure of a Found report for a snapshot and a top-holders list.
FoundStructure(md, holders) ==
    <<"<b>Token Overview</b>">>
    \o (IF holders # <<>> THEN <<"<b>Holder Distribution</b>">> ELSE <<>>)
    \o <<"<b>Liquidity</b>", "<b>Market Activity</b>", "<b>Key Links</b>", "Contract Address">>
    \o (IF Truthy(md.coingeckoId) THEN <<"CoinGecko">> ELSE <<>>)
    \o (IF Truthy(md.tag) THEN <<"Tag">> ELSE <<>>)
    \o (IF Truthy(md.twitter) THEN <<"Twitter">> ELSE <<>>)
    \o (IF Truthy(md.website) THEN <<"Website">> ELSE <<>>)
    \o <<"RugCheck", "BirdEye">>

\* C8: a returned report is one of two variants, decided by the metadata
\* outcome.  With no metadata it is the no-data notice with exactly one link
\* (to the token explorer) and no section, and no holders request was issued.
\* With metadata it holds the overview, liquidity, market-activity and static
\* tool links in that order, the holder section iff top_holders is non-empty,
\* and each of the CoinGecko, tag, Twitter and website links iff its field
\* holds a non-empty value.
C8_ReportVariants ==
    /\ token_metadata.isNone => ~status.holders.sent
    /\ (Returned /\ token_metadata.isNone) => IsNotFoundReport(message_lines)
    /\ (Returned /\ Found) =>
          Structure(message_lines) = FoundStructure(token_metadata, top_holders)
    /\ pc = "done" /\ Len(args) > 0 => replies = <<[text |-> message_lines, buttons |-> ReplyButtons]>>

\* A Found report with a holder section, a CoinGecko link and no website
\* link (the website field is the empty string) has been sent.
C8_Witness ==
    /\ pc = "done"
    /\ Found
    /\ top_holders = ExampleHolders
    /\ token_metadata.coingeckoId = "x"
    /\ token_metadata.website = ""
    /\ token_metadata.tag = NoneStr
    /\ HasLabel(message_lines, "<b>Holder Distribution</b>")
    /\ ~HasLabel(message_lines, "Website")

\* C9: in a Found report an unknown value is rendered as N/A; with the price
\* unknown the market cap is unknown and its line shows N/A, not $0.
C9_UnknownRendersNA ==
    (Returned /\ Found /\ ~token_metadata.price_usdt.has) =>
        LineOf(message_lines, "Market Cap").vals = <<NA>>

\* The denominator of the market-cap ratios under the zero-guard convention:
\* the market cap total_supply * price when the price is known and the
\* product is not zero, else 1.
GuardedCap(md) ==
    IF md.price_usdt.has /\ md.total_supply.num # 0 /\ md.price_usdt.v.num # 0
    THEN Rat(md.total_supply.num * md.price_usdt.v.num,
             md.total_supply.den * md.price_usdt.v.den)
    ELSE IntRat(1)

\* The handler is past the computation of the market-cap ratios.
RatiosComputed ==
    \/ pc \in {"fetch_top_holders", "holder_distribution", "returned", "done"} /\ Found
    \/ pc = "raised" /\ raisedAt \in {GetHolders, HolderDivision}

\* C10: volume_to_market_cap = volume_24h / d and liquidity_to_market_cap =
\* liquidity / d * 100 with d the market cap when known and non-zero, else 1;
\* the ratios are rendered as numbers ("x" and "%"), never as N/A.
C10_ZeroGuardedRatios ==
    /\ RatiosComputed =>
          /\ volume_market_cap_ratio.den # 0
          /\ dex_liquidity_market_cap_ratio.den # 0
          /\ volume_market_cap_ratio.num * GuardedCap(token_metadata).num
               = token_metadata.volume_usdt * GuardedCap(token_metadata).den
                   * volume_market_cap_ratio.den
          /\ dex_liquidity_market_cap_ratio.num * GuardedCap(token_metadata).num
               = token_metadata.total_liquidity * GuardedCap(token_metadata).den
                   * dex_liquidity_market_cap_ratio.den
    /\ (Returned /\ Found) =>
          /\ LineOf(message_lines, "Volume / Market Cap").vals
               = << [fmt |-> ".2fx",
                     num |-> RoundHalfEven(100 * token_metadata.volume_usdt
                                               * GuardedCap(token_metadata).den,
                                           GuardedCap(token_metadata).num),
                     den |-> 100] >>
          /\ LineOf(message_lines, "DEX Liquidity / Market Cap").vals
               = << [fmt |-> ".2f%",
                     num |-> RoundHalfEven(100 * 100 * token_metadata.total_liquidity
                                               * GuardedCap(token_metadata).den,
                                           GuardedCap(token_metadata).num),
                     den |-> 100] >>

\* A report for a token of unknown price (so unknown market cap) and a 24h
\* volume of 500 has been returned with "500.00x" on its volume ratio line.
C10_Witness ==
    /\ Returned
    /\ Found
    /\ ~token_metadata.price_usdt.has
    /\ token_metadata.volume_usdt = 500
    /\ LineOf(message_lines, "Volume / Market Cap").vals
         = <<[fmt |-> ".2fx", num |-> 50000, den |-> 100]>>
====
